---- MODULE Spec2Model ----
(***************************************************************************)
(* Change detection and notification of the game monitor                   *)
(* (src/game_monitor.py) as it is started from on_ready (src/manifest.py). *)
(*                                                                         *)
(* A GameMonitor instance is one element of the sequence mon.  A           *)
(* coroutine is suspended only at an await, so every action below runs     *)
(* from the resumption after one await to the suspension at the next one.  *)
(***************************************************************************)
EXTENDS Integers, Sequences, FiniteSets, TLC

\* ---------------------------------------------------------------- bounds
MaxGames == 2
MaxFixes == 2
MaxMonitors == 2
MaxCommands == 1
MaxShown == 11
MaxBlocks == 2
MaxLines == 81
MaxAnchors == 3
MaxGuilds == 2

\* lines per embed of gamelist (line 522), gamesearch (725), fixegame (665)
GameListPage == 80
SearchPage == 80
FixPage == 25

\* new_keys[:10], line 586: the number of games a query shows one by one
ShowCap == 10

\* ------------------------------------------------------- value universes
Titles == {"A", "B"}
AppIds == {"1"}
Images == {"x", "y"}
FixTitles == {"F"}
Channels == {7}
NoChannel == 0
Features == {"new", "update", "fixed"}

\* lexicographic rank of the keys, the order Python's sorted() uses
TitleRank == [t \in Titles |-> IF t = "A" THEN 1 ELSE 2]

\* one element of the JSON list of games.json; isdict = FALSE stands for
\* an element that is not a JSON object (g.get raises AttributeError).
\* The upstream lists game A with either image and game B with image x.
GameRecords ==
    {g \in [title : Titles, appid : AppIds, img : Images, isdict : {TRUE}] :
        g.title = "B" => g.img = "x"}
NotADict == [title |-> "A", appid |-> "1", img |-> "x", isdict |-> FALSE]
FixRecords == [title : FixTitles, download : {"/f.zip"}, size : {"1 MB"}]

SeqsUpTo(S, n) == UNION {[1..k -> S] : k \in 0..n}
GameLists == SeqsUpTo(GameRecords, MaxGames) \cup {<<NotADict>>}
FixLists == SeqsUpTo(FixRecords, MaxFixes)

\* a fetched list that holds a game and, after it, an element that is not
\* a JSON object
MixedLists ==
    {<<[title |-> "A", appid |-> "1", img |-> "x", isdict |-> TRUE], NotADict>>}

\* fetch results at and beyond the number of games a query shows one by
\* one: game A listed ShowCap to MaxShown times
LongLists ==
    {[k \in 1..n |-> [title |-> "A", appid |-> "1", img |-> "x", isdict |-> TRUE]] :
        n \in ShowCap..MaxShown}

\* fetch results for the order of the notifications: every game with
\* either image, two fixes, no title twice in a list, in every order
NoTitleTwice(s) == \A a, b \in 1..Len(s) : s[a].title = s[b].title => a = b
GameOrders ==
    {s \in SeqsUpTo([title : Titles, appid : AppIds, img : Images, isdict : {TRUE}],
                     MaxGames) : NoTitleTwice(s)}
FixOrders ==
    {s \in SeqsUpTo([title : {"F", "G"}, download : {"/f.zip"}, size : {"1 MB"}],
                     MaxFixes) : NoTitleTwice(s)}

Range(s) == {s[k] : k \in 1..Len(s)}
\* list(a_set): the elements once each, in an order the hash seed decides
ListsOf(S) == {s \in [1..Cardinality(S) -> S] : Range(s) = S}

VARIABLES
    mon,          \* the live GameMonitor instances of the running process
    file,         \* contents of game_config.json
    fixes_cache,  \* contents of fixes_cache.json (<<>> when absent)
    answered,     \* number of on-demand command callbacks answered so far
    upstream,     \* games.json as the upstream serves it, where that is fixed
    status_loop,  \* the StatusMonitor's status_loop task and its last tick
    status_page,  \* what a request to STATUS_URL is answered with
    reply,        \* the paged answer of gamelist, gamesearch or fixegame under way
    ready         \* the client's ready event (bot.wait_until_ready returns)

vars == <<mon, file, fixes_cache, answered, upstream, status_loop, status_page, reply, ready>>

Monitors == 1..Len(mon)

\* the monitor the slash commands are bound to: on_ready registers them for
\* the monitor of its first firing, and a later firing raises at its first
\* add_command (the command is already registered), after it has
\* constructed its GameMonitor
Commanded == {m \in Monitors : m = 1}

\* ---------------------------------------------------------- status loop
\* StatusMonitor.__init__ starts status_loop
StatusStart ==
    [running |-> TRUE, outcome |-> "none", description |-> <<>>, called |-> 0]

\* the text of a status block, character by character
BlockTexts ==
    {<<"O", "K">>,
     <<" ", "O", "K">>,
     <<"U", "p">>,
     <<"D", "o", "w", "n">>,
     <<"M", "a", "i", "n", "t", "e", "n", "a", "n", "c", "e">>,
     <<"D", "o", "w", "n", ",", "o", "k">>,
     <<"d", "o", "w", "n", " ", "M", "a", "i", "n", "t", "e", "n", "a", "n", "c", "e">>}

\* the answer of the status site: the request fails (or raise_for_status
\* raises), or the page holds these blocks, in document order
StatusPages == [fails : BOOLEAN, blocks : SeqsUpTo(BlockTexts, MaxBlocks)]
NoBlocks == [fails |-> FALSE, blocks |-> <<>>]

\* str.strip() for the blank
RECURSIVE LStrip(_)
LStrip(t) == IF t # <<>> /\ Head(t) = " " THEN LStrip(Tail(t)) ELSE t
RECURSIVE RStrip(_)
RStrip(t) ==
    IF t # <<>> /\ t[Len(t)] = " " THEN RStrip(SubSeq(t, 1, Len(t) - 1)) ELSE t
Strip(t) == RStrip(LStrip(t))

\* str.lower() for the capitals of the block texts
LowerChar(c) ==
    CASE c = "O" -> "o" [] c = "K" -> "k" [] c = "U" -> "u"
      [] c = "D" -> "d" [] c = "M" -> "m" [] OTHER -> c
Lower(t) == [k \in 1..Len(t) |-> LowerChar(t[k])]

\* word in text
Contains(t, w) ==
    \E k \in 1..(Len(t) - Len(w) + 1) : SubSeq(t, k, k + Len(w) - 1) = w

KwOk == <<"o", "k">>
KwMaintenance == <<"m", "a", "i", "n", "t", "e", "n", "a", "n", "c", "e">>
KwDown == <<"d", "o", "w", "n">>

\* a keyword chain that looks for "down" before "ok"
emoji_DownFirst(low) ==
    IF Contains(low, KwDown) THEN "outage"
    ELSE IF Contains(low, KwOk) THEN "operational"
    ELSE IF Contains(low, KwMaintenance) THEN "degraded"
    ELSE "unknown"

\* lines 52-59: the if / elif chain that picks the emoji of a block
emoji(low) ==
    IF Contains(low, KwOk) THEN "operational"
    ELSE IF Contains(low, KwMaintenance) THEN "degraded"
    ELSE IF Contains(low, KwDown) THEN "outage"
    ELSE "unknown"

StatusLine(mark, idx, text) == [mark |-> mark, idx |-> idx, text |-> text]

\* fetch_status: the lines it joins, or the one line it returns when no
\* block is found or the request raises
fetch_status(page) ==
    IF page.fails THEN <<StatusLine("error", 0, <<>>)>>
    ELSE IF page.blocks = <<>> THEN <<StatusLine("no_blocks", 0, <<>>)>>
    ELSE [idx \in 1..Len(page.blocks) |->
            LET text == Strip(page.blocks[idx])
            IN StatusLine(emoji(Lower(text)), idx, text)]

\* what one call of send_visual_status can meet for the configured channel
StatusOutcomes ==
    {"no_channel", "no_gif", "send_forbidden", "send_error",
     "edit_forbidden", "edit_error", "final_forbidden", "final_error", "done"}

\* send_visual_status: the early returns at lines 71-79, and the three
\* try blocks at 81-97, 104-107 and 115-118, which catch
\* discord.errors.Forbidden and nothing else, so any other HTTPException
\* of channel.send or msg.edit (NotFound for a deleted message, a 5xx
\* answer) leaves the coroutine as a raise
send_visual_status(o) ==
    IF o \in {"send_error", "edit_error", "final_error"}
    THEN "raised" ELSE "returned"

\* one tick of status_loop for a configured channel. The loop body has no
\* try: a raise out of send_visual_status leaves status_loop, and a
\* discord.ext.tasks loop whose coroutine raises an exception that is not a
\* connection error ends for good
StatusTick ==
    /\ status_loop.running
    /\ \E o \in StatusOutcomes :
         status_loop' = [running |-> send_visual_status(o) = "returned",
                         outcome |-> o,
                         description |->
                            IF o \in {"no_channel", "no_gif"}
                            THEN status_loop.description
                            ELSE fetch_status(status_page),
                         called |-> 1]
    /\ UNCHANGED <<mon, file, fixes_cache, answered, upstream, status_page, reply, ready>>

\* the guilds bound to a status channel, in the order of config.items()
Guilds == 1..MaxGuilds

\* status_loop's for loop over the bound guilds, outs[g] being what
\* send_visual_status meets for guild g: the loop awaits each call in turn
\* and a raise out of one call leaves the loop and the tick
status_round(sl, page, outs) ==
    LET raising == {g \in Guilds : send_visual_status(outs[g]) = "raised"}
        last == IF raising = {} THEN MaxGuilds
                ELSE CHOOSE g \in raising : \A h \in raising : g <= h
        fetching == {g \in 1..last : outs[g] \notin {"no_channel", "no_gif"}}
    IN [running |-> raising = {},
        outcome |-> outs[last],
        description |-> IF fetching = {} THEN sl.description
                        ELSE fetch_status(page),
        called |-> last]

\* one tick of status_loop with every guild bound
StatusRound ==
    /\ status_loop.running
    /\ \E outs \in [Guilds -> StatusOutcomes] :
         status_loop' = status_round(status_loop, status_page, outs)
    /\ UNCHANGED <<mon, file, fixes_cache, answered, upstream, status_page, reply, ready>>


\* ------------------------------------------------------------ config I/O
\* load_config of an absent file yields {}, which __init__ reads through
\* .get / setdefault as exactly these values; complete is FALSE for a file
\* that open(CONFIG_FILE, "w") has truncated and json.dump has not finished
EmptyFile ==
    [seen_new |-> <<>>, seen_update |-> <<>>, seen_fixed |-> <<>>,
     channel_id_new |-> NoChannel, channel_id_update |-> NoChannel,
     channel_id_fixed |-> NoChannel,
     game_cache |-> [t \in {} |-> [appid |-> "1", image |-> "x"]],
     complete |-> TRUE]

load_config == file

\* a save that writes the seen_update list the file already has
save_config_StaleUpdate(s) ==
    {[seen_new |-> l1, seen_update |-> file.seen_update, seen_fixed |-> l3,
      channel_id_new |-> s.config.channel_id_new,
      channel_id_update |-> s.config.channel_id_update,
      channel_id_fixed |-> s.config.channel_id_fixed,
      game_cache |-> s.config.game_cache,
      complete |-> TRUE] :
        l1 \in ListsOf(s.seen_new), l3 \in ListsOf(s.seen_fixed)}

\* the files json.dump can write for monitor state s
save_config(s) ==
    {[seen_new |-> l1, seen_update |-> l2, seen_fixed |-> l3,
      channel_id_new |-> s.config.channel_id_new,
      channel_id_update |-> s.config.channel_id_update,
      channel_id_fixed |-> s.config.channel_id_fixed,
      game_cache |-> s.config.game_cache,
      complete |-> TRUE] :
        l1 \in ListsOf(s.seen_new), l2 \in ListsOf(s.seen_update),
        l3 \in ListsOf(s.seen_fixed)}

\* a constructor that starts from an empty cache
NewMonitor_DropsCache(cfg) ==
    [config |-> [channel_id_new |-> cfg.channel_id_new,
                 channel_id_update |-> cfg.channel_id_update,
                 channel_id_fixed |-> cfg.channel_id_fixed,
                 game_cache |-> EmptyFile.game_cache],
     seen_new |-> Range(cfg.seen_new),
     seen_update |-> Range(cfg.seen_update),
     seen_fixed |-> Range(cfg.seen_fixed),
     pc |-> "idle",
     games |-> <<>>,
     new_post_queue |-> <<>>,
     update_post_queue |-> <<>>,
     current_map |-> <<>>,
     new_fix_list |-> <<>>,
     i |-> 0,
     sent |-> <<>>,
     scrape_failed |-> FALSE,
     raised |-> FALSE]

\* GameMonitor.__init__
NewMonitor(cfg) ==
    [config |-> [channel_id_new |-> cfg.channel_id_new,
                 channel_id_update |-> cfg.channel_id_update,
                 channel_id_fixed |-> cfg.channel_id_fixed,
                 game_cache |-> cfg.game_cache],
     seen_new |-> Range(cfg.seen_new),
     seen_update |-> Range(cfg.seen_update),
     seen_fixed |-> Range(cfg.seen_fixed),
     pc |-> "idle",
     games |-> <<>>,
     new_post_queue |-> <<>>,
     update_post_queue |-> <<>>,
     current_map |-> <<>>,
     new_fix_list |-> <<>>,
     i |-> 0,
     sent |-> <<>>,
     scrape_failed |-> FALSE,
     raised |-> FALSE]

\* ------------------------------------------------------- change detector
Payload(g) == [appid |-> g.appid, image |-> g.img]

\* current_map[title] = ... in the loop: the last record of a title wins
CurrentMap(games) ==
    LET keys == {games[k].title : k \in 1..Len(games)}
        last(t) == CHOOSE k \in 1..Len(games) :
                      /\ games[k].title = t
                      /\ \A j \in (k+1)..Len(games) : games[j].title # t
    IN [t \in keys |-> Payload(games[last(t)])]

\* a classification that queues every fetched title, seen or not
NewPostQueue_IgnoresSeen(games, seen) ==
    [k \in 1..Len(games) |-> games[k].title]

RECURSIVE NewPostQueue(_, _)
NewPostQueue(games, seen) ==
    IF games = <<>> THEN <<>>
    ELSE LET g == Head(games)
         IN (IF g.title \notin seen THEN <<g.title>> ELSE <<>>)
              \o NewPostQueue(Tail(games), seen)

\* old_data = config.get("game_cache", {}).get(title, {})
Differs(cache, g) ==
    \/ g.title \notin DOMAIN cache
    \/ cache[g.title] # Payload(g)

\* an else branch that queues every title whose payload is not the cached
\* one, seen or not
RECURSIVE UpdatePostQueue_Unseen(_, _, _)
UpdatePostQueue_Unseen(games, seen, cache) ==
    IF games = <<>> THEN <<>>
    ELSE LET g == Head(games)
         IN (IF Differs(cache, g) THEN <<g.title>> ELSE <<>>)
              \o UpdatePostQueue_Unseen(Tail(games), seen, cache)

RECURSIVE UpdatePostQueue(_, _, _)
UpdatePostQueue(games, seen, cache) ==
    IF games = <<>> THEN <<>>
    ELSE LET g == Head(games)
         IN (IF g.title \in seen /\ Differs(cache, g) THEN <<g.title>> ELSE <<>>)
              \o UpdatePostQueue(Tail(games), seen, cache)

RECURSIVE NewFixList(_, _)
NewFixList(fixes, seen) ==
    IF fixes = <<>> THEN <<>>
    ELSE LET f == Head(fixes)
         IN (IF f.title \notin seen THEN <<f>> ELSE <<>>)
              \o NewFixList(Tail(fixes), seen)

\* sorted(queue)
RECURSIVE Insert(_, _)
Insert(t, s) ==
    IF s = <<>> THEN <<t>>
    ELSE IF TitleRank[t] <= TitleRank[Head(s)] THEN <<t>> \o s
    ELSE <<Head(s)>> \o Insert(t, Tail(s))

\* a send loop that takes the queue in fetch order
Sorted_FetchOrder(s) == s

RECURSIVE Sorted(_)
Sorted(s) == IF s = <<>> THEN <<>> ELSE Insert(Head(s), Sorted(Tail(s)))

\* ------------------------------------------------------- paged delivery
\* no paged answer is under way
NoReply ==
    [cmd |-> "none", pc |-> "done", pages |-> <<>>, i |-> 0, msg |-> 0,
     log |-> <<>>, failed |-> FALSE]

PagedCommands == {"gamelist", "gamesearch", "fixegame"}

chunk_size(cmd) ==
    CASE cmd = "gamelist" -> GameListPage
      [] cmd = "gamesearch" -> SearchPage
      [] cmd = "fixegame" -> FixPage

\* the formatted lines of an answer, named by their position
Lines(n) == [k \in 1..n |-> k]

\* [lines[i:i+size] for i in range(0, len(lines), size)]
RECURSIVE Chunks(_, _)
Chunks(lines, size) ==
    IF lines = <<>> THEN <<>>
    ELSE IF Len(lines) <= size THEN <<lines>>
    ELSE <<SubSeq(lines, 1, size)>>
            \o Chunks(SubSeq(lines, size + 1, Len(lines)), size)

Delivery(op, page, msg, ok) == [op |-> op, page |-> page, msg |-> msg, ok |-> ok]

\* the handler up to the end of its first page: nothing to page when there
\* are no lines; followup.send raises when the send fails; gamelist and
\* fixegame fetch the sent message (msg.fetch()), which can raise too
FirstPageOf(cmd, lines, sent, fetched) ==
    LET pages == Chunks(lines, chunk_size(cmd))
        r == [NoReply EXCEPT !.cmd = cmd, !.pages = pages]
    IN IF lines = <<>> THEN r
       ELSE IF ~sent THEN [r EXCEPT !.failed = TRUE]
       ELSE IF cmd # "gamesearch" /\ ~fetched
            THEN [r EXCEPT !.failed = TRUE, !.msg = 1,
                           !.log = <<Delivery("send", 1, 1, TRUE)>>]
       ELSE [r EXCEPT !.msg = 1, !.i = 2,
                      !.log = <<Delivery("send", 1, 1, TRUE)>>,
                      !.pc = IF Len(pages) > 1 THEN "editing" ELSE "done"]

FirstPage(cmd, n, sent, fetched) == FirstPageOf(cmd, Lines(n), sent, fetched)

\* an edit loop that gives up at the first failed edit
Edited_StopsAtFailure(r, ok) ==
    [r EXCEPT !.log = Append(@, Delivery("edit", r.i, r.msg, ok)),
              !.i = @ + 1,
              !.pc = IF r.i = Len(r.pages) \/ ~ok THEN "done" ELSE "editing"]

\* one pass of 'for embed in embeds[1:]': msg.edit inside try / except
\* Exception, so the loop goes on whether the edit went through or not
Edited(r, ok) ==
    [r EXCEPT !.log = Append(@, Delivery("edit", r.i, r.msg, ok)),
              !.i = @ + 1,
              !.pc = IF r.i = Len(r.pages) THEN "done" ELSE "editing"]

\* a paged command is invoked and answers with its first page
StartReply ==
    /\ reply.pc = "done"
    /\ answered < MaxCommands
    /\ answered' = answered + 1
    /\ \E cmd \in PagedCommands, n \in 0..MaxLines, sent \in BOOLEAN, fetched \in BOOLEAN :
         reply' = FirstPage(cmd, n, sent, fetched)
    /\ UNCHANGED <<mon, file, fixes_cache, upstream, status_loop, status_page, ready>>

\* the next page is applied as an edit
EditPage ==
    /\ reply.pc = "editing"
    /\ \E ok \in BOOLEAN : reply' = Edited(reply, ok)
    /\ UNCHANGED <<mon, file, fixes_cache, answered, upstream, status_loop, status_page, ready>>

\* ---------------------------------------------------------------- Init
Init ==
    /\ mon = <<NewMonitor(EmptyFile)>>
    /\ file = EmptyFile
    /\ fixes_cache = <<>>
    /\ answered = 0
    /\ upstream = <<>>
    /\ status_loop = StatusStart
    /\ status_page = NoBlocks
    /\ reply = NoReply
    /\ ready = TRUE

\* --------------------------------------------------------- games pipeline
\* the locals of a pipeline are gone once the tick is over
Locals ==
    [games |-> <<>>, new_post_queue |-> <<>>, update_post_queue |-> <<>>,
     current_map |-> <<>>, new_fix_list |-> <<>>, i |-> 0, sent |-> <<>>,
     scrape_failed |-> FALSE]

Forget(s) == [f \in DOMAIN s |-> IF f \in DOMAIN Locals THEN Locals[f] ELSE s[f]]

Put(m, s) == mon' = [mon EXCEPT ![m] = IF s.pc = "idle" THEN Forget(s) ELSE s]

\* an end of the games pipeline that leaves the cache as it was
FinishGames_KeepsCache(s) == [s EXCEPT !.pc = "fixes", !.i = 0]

\* lines 336-338: the cache is replaced by current_map and the config saved
FinishGames(s) ==
    [s EXCEPT !.config.game_cache = s.current_map, !.pc = "fixes", !.i = 0]

\* line 328: the update batch is sent only when a destination is bound
EnterUpdate(s) ==
    IF s.update_post_queue # <<>> /\ s.config.channel_id_update # NoChannel
    THEN [s EXCEPT !.pc = "send_update", !.i = 1]
    ELSE FinishGames(s)

\* a new block that records the batch as seen when no destination is bound
EnterNew_RecordsUnbound(s) ==
    IF s.new_post_queue # <<>> /\ s.config.channel_id_new # NoChannel
    THEN [s EXCEPT !.pc = "send_new", !.i = 1]
    ELSE EnterUpdate([s EXCEPT !.seen_new = @ \cup Range(s.new_post_queue)])

\* line 319: the new batch is sent only when a destination is bound
EnterNew(s) ==
    IF s.new_post_queue # <<>> /\ s.config.channel_id_new # NoChannel
    THEN [s EXCEPT !.pc = "send_new", !.i = 1]
    ELSE EnterUpdate(s)

\* a classification loop that records the New keys as seen at once
Classify_MarksSeen(s, games) ==
    [s EXCEPT !.current_map = CurrentMap(games),
              !.new_post_queue = NewPostQueue(games, s.seen_new),
              !.update_post_queue =
                  UpdatePostQueue(games, s.seen_new, s.config.game_cache),
              !.seen_new = @ \cup Range(NewPostQueue(games, s.seen_new))]

\* lines 293-316: the classification loop
Classify(s, games) ==
    [s EXCEPT !.current_map = CurrentMap(games),
              !.new_post_queue = NewPostQueue(games, s.seen_new),
              !.update_post_queue =
                  UpdatePostQueue(games, s.seen_new, s.config.game_cache)]

\* a games pipeline that takes an empty fetch for the list of all games
StartGames_EmptyIsAList(s, games) ==
    IF \E k \in 1..Len(games) : ~games[k].isdict
    THEN [s EXCEPT !.pc = "idle", !.raised = TRUE]
    ELSE EnterNew(Classify(s, games))

\* process_games_new_updated from the return of fetch_games to its first
\* await: an empty result returns at once, an element that is no JSON
\* object raises out of the loop into monitor_loop's except (the tick ends)
StartGames(s, games) ==
    IF games = <<>> THEN [s EXCEPT !.pc = "fixes"]
    ELSE IF \E k \in 1..Len(games) : ~games[k].isdict
         THEN [s EXCEPT !.pc = "idle", !.raised = TRUE]
    ELSE EnterNew(Classify(s, games))

\* a loop whose timer starts a tick while the last one is still under way
GamesPoll_Reentrant(m, games) ==
    /\ ready
    /\ LET s0 == [mon[m] EXCEPT !.games = games, !.raised = FALSE]
           t == StartGames(s0, games)
       IN /\ Put(m, t)
          /\ IF t.pc = "fixes" /\ games # <<>>
             THEN file' \in save_config(t) ELSE file' = file
    /\ UNCHANGED <<fixes_cache, answered, upstream, status_loop, status_page, reply, ready>>

\* a tick of monitor_loop starts, the bot being ready and the loop's last
\* tick over: fetch_games returns games and the games pipeline runs up to
\* its first suspension
GamesPoll(m, games) ==
    /\ ready
    /\ mon[m].pc = "idle"
    /\ LET s0 == [mon[m] EXCEPT !.games = games, !.raised = FALSE]
           t == StartGames(s0, games)
       IN /\ Put(m, t)
          /\ IF t.pc = "fixes" /\ games # <<>>
             THEN file' \in save_config(t) ELSE file' = file
    /\ UNCHANGED <<fixes_cache, answered, upstream, status_loop, status_page, reply, ready>>

\* the tick with whatever fetch_games may return
GamesTick(m) == \E games \in GameLists : GamesPoll(m, games)

\* what session.get(url) can come to: the request fails (fails), or a
\* response arrives with a status and a body that is a JSON list, another
\* JSON value, or no JSON at all
Bodies ==
    {[json |-> "list", data |-> g] : g \in GameLists}
       \cup {[json |-> j, data |-> <<>>] : j \in {"object", "malformed"}}
Responses == [fails : BOOLEAN, status : {200, 404}, body : Bodies]

Returns(v) == [raised |-> FALSE, value |-> v]
Raises == [raised |-> TRUE, value |-> <<>>]

\* lines 164-176, the body of the try: session.get raises on a network
\* failure and r.json() on a body that is not JSON
try_fetch(r) ==
    IF r.fails THEN Raises
    ELSE IF r.status # 200 THEN Returns(<<>>)
    ELSE IF r.body.json = "malformed" THEN Raises
    ELSE IF r.body.json = "list" THEN Returns(r.body.data)
    ELSE Returns(<<>>)

\* a fetch_games without the except clause
fetch_games_Propagates(r) == try_fetch(r)

\* fetch_games: the except clause (lines 178-180) turns a raise into []
fetch_games(r) ==
    IF try_fetch(r).raised THEN Returns(<<>>) ELSE try_fetch(r)

\* the tick when fetch_games runs against the response in upstream; a raise
\* out of fetch_games would end the tick in monitor_loop's except
GamesTickFetch(m) ==
    LET f == fetch_games(upstream)
    IN IF f.raised
       THEN /\ mon[m].pc = "idle"
            /\ Put(m, [mon[m] EXCEPT !.raised = TRUE])
            /\ UNCHANGED <<file, fixes_cache, answered, upstream, status_loop, status_page, reply, ready>>
       ELSE GamesPoll(m, f.value)

\* the tick while the upstream keeps serving the same list
GamesTickSame(m) == GamesPoll(m, upstream)

\* the tick with a fetch of distinct games in some order
GamesTickOrder(m) == \E games \in GameOrders : GamesPoll(m, games)

\* safe_send: the attempt is made and ends delivered or failed-and-logged;
\* no exception leaves it
safe_send(log, kind, title, ok) == Append(log, <<kind, title, ok>>)

\* a new batch that a failed delivery ends, unrecorded
NewSent_StopsAtFailure(s, ok) ==
    LET q == Sorted(s.new_post_queue)
        s1 == [s EXCEPT !.sent = safe_send(@, "NEW", q[s.i], ok)]
    IN IF ~ok THEN EnterUpdate(s1)
       ELSE IF s.i < Len(q)
       THEN [s1 EXCEPT !.i = s.i + 1]
       ELSE EnterUpdate([s1 EXCEPT !.seen_new = @ \cup Range(s.new_post_queue)])

\* lines 320-325: the loop over sorted(new_post_queue), resumed after one
\* safe_send; after the last item the batch is recorded as seen
NewSent(s, ok) ==
    LET q == Sorted(s.new_post_queue)
        s1 == [s EXCEPT !.sent = safe_send(@, "NEW", q[s.i], ok)]
    IN IF s.i < Len(q)
       THEN [s1 EXCEPT !.i = s.i + 1]
       ELSE EnterUpdate([s1 EXCEPT !.seen_new = @ \cup Range(s.new_post_queue)])

\* one safe_send of the new batch returns
SendNew(m) ==
    /\ mon[m].pc = "send_new"
    /\ \E ok \in BOOLEAN :
         LET t == NewSent(mon[m], ok)
         IN /\ Put(m, t)
            /\ IF t.pc = "fixes" THEN file' \in save_config(t) ELSE file' = file
    /\ UNCHANGED <<fixes_cache, answered, upstream, status_loop, status_page, reply, ready>>

\* lines 329-338: the loop over sorted(update_post_queue), resumed after
\* one safe_send; after the last item the batch is recorded and saved
UpdateSent(s, ok) ==
    LET q == Sorted(s.update_post_queue)
        s1 == [s EXCEPT !.sent = safe_send(@, "UPDATED", q[s.i], ok)]
    IN IF s.i < Len(q)
       THEN [s1 EXCEPT !.i = s.i + 1]
       ELSE FinishGames([s1 EXCEPT !.seen_update =
                            @ \cup Range(s.update_post_queue)])

\* one safe_send of the update batch returns
SendUpdate(m) ==
    /\ mon[m].pc = "send_update"
    /\ \E ok \in BOOLEAN :
         LET t == UpdateSent(mon[m], ok)
         IN /\ Put(m, t)
            /\ IF t.pc = "fixes" THEN file' \in save_config(t) ELSE file' = file
    /\ UNCHANGED <<fixes_cache, answered, upstream, status_loop, status_page, reply, ready>>

\* --------------------------------------------------------- fixes pipeline
\* process_fixes from the return of the scrape to its first await; the
\* tick ends (pc = "idle") when it returns
StartFixes(s, fixes) ==
    LET nfl == NewFixList(fixes, s.seen_fixed)
        s1 == [s EXCEPT !.new_fix_list = nfl]
    IN IF fixes = <<>> THEN [s EXCEPT !.pc = "idle"]
       ELSE IF nfl = <<>> THEN [s1 EXCEPT !.pc = "idle"]
       ELSE IF s.config.channel_id_fixed = NoChannel THEN [s1 EXCEPT !.pc = "idle"]
       ELSE [s1 EXCEPT !.pc = "send_fix", !.i = 1]

\* a scrape that returns nothing when it fails
scrape_fixes_NoFallback(cache, ok, scraped) ==
    IF ok THEN [fixes |-> scraped, cache |-> scraped]
    ELSE [fixes |-> <<>>, cache |-> cache]

\* scrape_fixes_with_playwright: what it returns and what it leaves in the
\* cache file, for a scrape that succeeded with a list or failed
scrape_fixes_with_playwright(cache, ok, scraped) ==
    IF ok THEN [fixes |-> scraped, cache |-> scraped]
    ELSE [fixes |-> cache, cache |-> cache]

\* the fixes pipeline of a tick starts: the scrape ends, with one of the
\* lists the page may show or with a failure, and process_fixes runs up to
\* its first suspension
FixesPoll(m, lists) ==
    /\ mon[m].pc = "fixes"
    /\ \E ok \in BOOLEAN, scraped \in lists :
         LET r == scrape_fixes_with_playwright(fixes_cache, ok, scraped)
         IN /\ fixes_cache' = r.cache
            /\ Put(m, StartFixes([Forget(mon[m]) EXCEPT !.scrape_failed = ~ok],
                                  r.fixes))
    /\ UNCHANGED <<file, answered, upstream, status_loop, status_page, reply, ready>>

FixesTick(m) == FixesPoll(m, FixLists)

\* the fixes pipeline with a scrape of distinct fixes in some order
FixesTickOrder(m) == FixesPoll(m, FixOrders)

\* lines 368-373: the loop over new_fix_list, resumed after one safe_send;
\* after the last item the batch is recorded and the config saved
FixSent(s, ok) ==
    LET q == s.new_fix_list
        s1 == [s EXCEPT !.sent = safe_send(@, "FIX", q[s.i].title, ok)]
    IN IF s.i < Len(q)
       THEN [s1 EXCEPT !.i = s.i + 1]
       ELSE [s1 EXCEPT !.seen_fixed = @ \cup {q[k].title : k \in 1..Len(q)},
                       !.pc = "idle"]

\* one safe_send of the fix batch returns
SendFix(m) ==
    /\ mon[m].pc = "send_fix"
    /\ \E ok \in BOOLEAN :
         LET t == FixSent(mon[m], ok)
         IN /\ Put(m, t)
            /\ IF t.pc = "idle" THEN file' \in save_config(t) ELSE file' = file
    /\ UNCHANGED <<fixes_cache, answered, upstream, status_loop, status_page, reply, ready>>

\* ------------------------------------------------------------- gamesetup
\* a callback that binds every feature to the selected channel
ChannelSelect_BindsAll(s, feature, selected_channel) ==
    [s EXCEPT !.config.channel_id_new = selected_channel,
              !.config.channel_id_update = selected_channel,
              !.config.channel_id_fixed = selected_channel]

\* ChannelSelect.callback: bind one feature's channel and save the config
ChannelSelect(s, feature, selected_channel) ==
    CASE feature = "new" ->
           [s EXCEPT !.config.channel_id_new = selected_channel]
      [] feature = "update" ->
           [s EXCEPT !.config.channel_id_update = selected_channel]
      [] feature = "fixed" ->
           [s EXCEPT !.config.channel_id_fixed = selected_channel]

GameSetup(m) ==
    /\ \E feature \in Features, selected_channel \in Channels :
         LET t == ChannelSelect(mon[m], feature, selected_channel)
         IN /\ Put(m, t)
            /\ file' \in save_config(t)
    /\ UNCHANGED <<fixes_cache, answered, upstream, status_loop, status_page, reply, ready>>

\* ------------------------------------------------------ process lifecycle
\* the process is killed at whatever await it is suspended at and started
\* again: on_ready constructs a GameMonitor from the config file
Restart ==
    /\ mon' = (IF file.complete THEN <<NewMonitor(load_config)>> ELSE <<>>)
    /\ status_loop' = StatusStart
    /\ reply' = NoReply
    /\ ready' = TRUE
    /\ UNCHANGED <<file, fixes_cache, answered, upstream, status_page>>

\* what an interrupted save_config leaves of the config file
Torn == [EmptyFile EXCEPT !.complete = FALSE]

\* monitor m can be inside save_config: in the gamesetup callback (line
\* 428), at the end of a games pipeline (338) or of a fixes pipeline (373)
InSaveConfig(m) ==
    \/ m \in Commanded
    \/ /\ mon[m].pc = "idle"
       /\ \E games \in GameLists :
             games # <<>> /\ StartGames(mon[m], games).pc = "fixes"
    \/ /\ mon[m].pc = "send_new"
       /\ \E ok \in BOOLEAN : NewSent(mon[m], ok).pc = "fixes"
    \/ /\ mon[m].pc = "send_update"
       /\ \E ok \in BOOLEAN : UpdateSent(mon[m], ok).pc = "fixes"
    \/ /\ mon[m].pc = "send_fix"
       /\ \E ok \in BOOLEAN : FixSent(mon[m], ok).pc = "idle"

\* the process is killed inside save_config, between the open that
\* truncates the file and the end of json.dump, and started again:
\* json.load raises in load_config and on_ready constructs no GameMonitor
KilledInSave(m) ==
    /\ InSaveConfig(m)
    /\ file' = Torn
    /\ mon' = <<>>
    /\ status_loop' = StatusStart
    /\ reply' = NoReply
    /\ ready' = TRUE
    /\ UNCHANGED <<fixes_cache, answered, upstream, status_page>>

\* on_ready fires again in the running process (the gateway session was
\* re-established): one more GameMonitor with its own monitor_loop
on_ready ==
    /\ Len(mon) < MaxMonitors
    /\ mon' = Append(mon, NewMonitor(load_config))
    /\ status_loop' = StatusStart
    /\ ready' = TRUE
    /\ UNCHANGED <<file, fixes_cache, answered, upstream, status_page, reply>>

\* ------------------------------------------------- on-demand query handlers
\* Each callback as the change it makes to the monitor it was created for,
\* once its own fetch of the upstream has returned games (or fixes).
\* a newgame that records the titles it reports as seen
newgame_RecordsSeen(s, games) ==
    [s EXCEPT !.seen_new = @ \cup {games[k].title : k \in 1..Len(games)}]

\* newgame: reads monitor.seen_new to filter the fetched keys
newgame(s, games) == s

\* updategame / send_updates: reads monitor.seen_update
updategame(s, games) == s

\* gamelist: formats and pages the fetched list
gamelist(s, games) == s

\* gamesearch: filters the fetched list by the query
gamesearch(s, games) == s

\* fixegame: pages the scraped (or markup-scanned) fixes
fixegame(s, fixes) == s

\* newgame, lines 568-580: the fetched keys that are not in seen_new
current_keys(games) == [k \in 1..Len(games) |-> games[k].title]

new_keys(s, games) ==
    SelectSeq(current_keys(games), LAMBDA k : k \notin s.seen_new)

\* send_updates, lines 606-613: the fetched games whose name is not in
\* seen_update
results(s, games) ==
    SelectSeq(games, LAMBDA g : g.title \notin s.seen_update)

\* the followup messages of one answer
Item(key) == [kind |-> "item", key |-> key, n |-> 0]
Text(kind, n) == [kind |-> kind, key |-> "", n |-> n]

\* newgame, lines 564-592: the messages it sends for a fetch
newgame_sends(s, games) ==
    LET nk == new_keys(s, games)
        shown == IF Len(nk) > ShowCap THEN ShowCap ELSE Len(nk)
    IN IF games = <<>> THEN <<Text("failed", 0)>>
       ELSE IF nk = <<>> THEN <<Text("none", 0)>>
       ELSE [k \in 1..shown |-> Item(nk[k])]
              \o (IF Len(nk) > ShowCap THEN <<Text("count", Len(nk))>> ELSE <<>>)

\* send_updates, lines 602-622: the messages it sends for a fetch
updategame_sends(s, games) ==
    LET rs == results(s, games)
    IN IF games = <<>> THEN <<Text("failed", 0)>>
       ELSE IF rs = <<>> THEN <<Text("none", 0)>>
       ELSE [k \in 1..Len(rs) |-> Item(rs[k].title)]

Newgame(m) ==
    /\ answered < MaxCommands
    /\ Put(m, newgame(mon[m], upstream))
    /\ answered' = answered + 1
    /\ UNCHANGED <<file, fixes_cache, upstream, status_loop, status_page, reply, ready>>

Updategame(m) ==
    /\ answered < MaxCommands
    /\ Put(m, updategame(mon[m], upstream))
    /\ answered' = answered + 1
    /\ UNCHANGED <<file, fixes_cache, upstream, status_loop, status_page, reply, ready>>

Gamelist(m) ==
    /\ answered < MaxCommands
    /\ Put(m, gamelist(mon[m], upstream))
    /\ answered' = answered + 1
    /\ UNCHANGED <<file, fixes_cache, upstream, status_loop, status_page, reply, ready>>

Gamesearch(m) ==
    /\ answered < MaxCommands
    /\ Put(m, gamesearch(mon[m], upstream))
    /\ answered' = answered + 1
    /\ UNCHANGED <<file, fixes_cache, upstream, status_loop, status_page, reply, ready>>

\* fixegame scrapes first (the scrape rewrites the fixes cache file) and
\* scans the markup with fetch_fixes when the scrape returned nothing
Fixegame(m) ==
    /\ answered < MaxCommands
    /\ \E ok \in BOOLEAN, scraped \in FixLists, scanned \in FixLists :
         LET r == scrape_fixes_with_playwright(fixes_cache, ok, scraped)
             fixes == IF r.fixes = <<>> THEN scanned ELSE r.fixes
         IN /\ fixes_cache' = r.cache
            /\ Put(m, fixegame(mon[m], fixes))
    /\ answered' = answered + 1
    /\ UNCHANGED <<file, upstream, status_loop, status_page, reply, ready>>

\* ------------------------------------------------------ markup scan
\* the entries fetch_fixes extracts from the anchors of the fixes page, in
\* document order, before it removes repeated titles; ok is FALSE when
\* safe_get_text returned no markup
Extracted ==
    [title : {"F", "G"}, download : {"/f.zip", "/g.zip"}, size : {"1 MB"}]
FixesMarkup == [ok : BOOLEAN, entries : SeqsUpTo(Extracted, MaxAnchors)]

\* a pass that keeps the last entry of a title
RECURSIVE uniq_KeepsLast(_, _)
uniq_KeepsLast(entries, seen) ==
    IF entries = <<>> THEN <<>>
    ELSE IF \E k \in 2..Len(entries) : entries[k].title = Head(entries).title
         THEN uniq_KeepsLast(Tail(entries), seen)
    ELSE <<Head(entries)>> \o uniq_KeepsLast(Tail(entries), seen)

\* lines 227-233: the pass over results with the set of titles seen so far
RECURSIVE uniq(_, _)
uniq(entries, seen) ==
    IF entries = <<>> THEN <<>>
    ELSE IF Head(entries).title \in seen THEN uniq(Tail(entries), seen)
    ELSE <<Head(entries)>>
            \o uniq(Tail(entries), seen \cup {Head(entries).title})

\* fetch_fixes
fetch_fixes(page) == IF ~page.ok THEN <<>> ELSE uniq(page.entries, {})

\* fixegame when the scrape returned nothing: the fixes come from
\* fetch_fixes, run against the markup in upstream, one line per fix
FixegameScan(m) ==
    /\ answered < MaxCommands
    /\ \E ok \in BOOLEAN, scraped \in FixLists, sent \in BOOLEAN, fetched \in BOOLEAN :
         LET r == scrape_fixes_with_playwright(fixes_cache, ok, scraped)
             fixes == fetch_fixes(upstream)
         IN /\ r.fixes = <<>>
            /\ fixes_cache' = r.cache
            /\ Put(m, fixegame(mon[m], fixes))
            /\ reply' = FirstPageOf("fixegame", fixes, sent, fetched)
    /\ answered' = answered + 1
    /\ UNCHANGED <<file, upstream, status_loop, status_page, ready>>

Next ==
    \/ \E m \in Monitors : GamesTick(m)
    \/ \E m \in Monitors : SendNew(m)
    \/ \E m \in Monitors : SendUpdate(m)
    \/ \E m \in Monitors : FixesTick(m)
    \/ \E m \in Monitors : SendFix(m)
    \/ \E m \in Commanded : GameSetup(m)
    \/ Restart

Spec == Init /\ [][Next]_vars

\* the upstream serves one list throughout: every fetch returns it
InitSame ==
    /\ mon = <<NewMonitor(EmptyFile)>>
    /\ file = EmptyFile
    /\ fixes_cache = <<>>
    /\ answered = 0
    /\ upstream \in GameLists
    /\ status_loop = StatusStart
    /\ status_page = NoBlocks
    /\ reply = NoReply
    /\ ready = TRUE

NextSame ==
    \/ \E m \in Monitors : GamesTickSame(m)
    \/ \E m \in Monitors : SendNew(m)
    \/ \E m \in Monitors : SendUpdate(m)
    \/ \E m \in Monitors : FixesTick(m)
    \/ \E m \in Monitors : SendFix(m)
    \/ \E m \in Commanded : GameSetup(m)
    \/ Restart

SpecSame == InitSame /\ [][NextSame]_vars

\* as SpecSame, together with the on-demand commands
NextCmd ==
    \/ NextSame
    \/ \E m \in Commanded : Newgame(m)
    \/ \E m \in Commanded : Updategame(m)
    \/ \E m \in Commanded : Gamelist(m)
    \/ \E m \in Commanded : Gamesearch(m)
    \/ \E m \in Commanded : Fixegame(m)

SpecCmd == InitSame /\ [][NextCmd]_vars

\* as SpecSame, with on_ready firing more than once in a process
NextReady ==
    \/ NextSame
    \/ on_ready

SpecReady == InitSame /\ [][NextReady]_vars

\* as SpecCmd, with an upstream that may list more games than a query shows
InitShow ==
    /\ mon = <<NewMonitor(EmptyFile)>>
    /\ file = EmptyFile
    /\ fixes_cache = <<>>
    /\ answered = 0
    /\ upstream \in GameLists \cup LongLists
    /\ status_loop = StatusStart
    /\ status_page = NoBlocks
    /\ reply = NoReply
    /\ ready = TRUE

SpecShow == InitShow /\ [][NextCmd]_vars

\* the endpoint answers every request with the response in upstream
InitFetch ==
    /\ mon = <<NewMonitor(EmptyFile)>>
    /\ file = EmptyFile
    /\ fixes_cache = <<>>
    /\ answered = 0
    /\ upstream \in Responses
    /\ status_loop = StatusStart
    /\ status_page = NoBlocks
    /\ reply = NoReply
    /\ ready = TRUE

NextFetch ==
    \/ \E m \in Monitors : GamesTickFetch(m)
    \/ \E m \in Monitors : SendNew(m)
    \/ \E m \in Monitors : SendUpdate(m)
    \/ \E m \in Monitors : FixesTick(m)
    \/ \E m \in Monitors : SendFix(m)
    \/ \E m \in Commanded : GameSetup(m)
    \/ Restart

SpecFetch == InitFetch /\ [][NextFetch]_vars

\* as Spec, together with the ticks of the status loop
NextStatus ==
    \/ Next
    \/ StatusTick

SpecStatus == Init /\ [][NextStatus]_vars

\* the status loop alone, against a status page that stays as it is
InitPage ==
    /\ mon = <<NewMonitor(EmptyFile)>>
    /\ file = EmptyFile
    /\ fixes_cache = <<>>
    /\ answered = 0
    /\ upstream = <<>>
    /\ status_loop = StatusStart
    /\ status_page \in StatusPages
    /\ reply = NoReply
    /\ ready = TRUE

NextPage ==
    \/ StatusTick
    \/ Restart

SpecPage == InitPage /\ [][NextPage]_vars

\* the paged answers of gamelist, gamesearch and fixegame
NextPaging ==
    \/ StartReply
    \/ EditPage

SpecPaging == Init /\ [][NextPaging]_vars

\* as SpecSame, with an upstream that may serve a list of mixed elements
InitMixed ==
    /\ mon = <<NewMonitor(EmptyFile)>>
    /\ file = EmptyFile
    /\ fixes_cache = <<>>
    /\ answered = 0
    /\ upstream \in GameLists \cup MixedLists
    /\ status_loop = StatusStart
    /\ status_page = NoBlocks
    /\ reply = NoReply
    /\ ready = TRUE

SpecMixed == InitMixed /\ [][NextSame]_vars

\* as Spec, from the start of the process: no monitor exists until the
\* client is ready and on_ready fires for the first time
InitBoot ==
    /\ mon = <<>>
    /\ file = EmptyFile
    /\ fixes_cache = <<>>
    /\ answered = 0
    /\ upstream = <<>>
    /\ status_loop = StatusStart
    /\ status_page = NoBlocks
    /\ reply = NoReply
    /\ ready = FALSE

Boot == ~ready /\ on_ready

NextBoot ==
    \/ Next
    \/ Boot

SpecBoot == InitBoot /\ [][NextBoot]_vars

\* fixegame answered from the markup scan, for every markup
InitScan ==
    /\ mon = <<NewMonitor(EmptyFile)>>
    /\ file = EmptyFile
    /\ fixes_cache = <<>>
    /\ answered = 0
    /\ upstream \in FixesMarkup
    /\ status_loop = StatusStart
    /\ status_page = NoBlocks
    /\ reply = NoReply
    /\ ready = TRUE

NextScan ==
    \/ \E m \in Commanded : FixegameScan(m)
    \/ Restart

SpecScan == InitScan /\ [][NextScan]_vars

\* the status loop with several guilds bound
NextGuilds ==
    \/ StatusRound
    \/ Restart

SpecGuilds == InitPage /\ [][NextGuilds]_vars

\* as Spec, with a process that can be killed while it writes the config
NextKill ==
    \/ Next
    \/ \E m \in Monitors : KilledInSave(m)

SpecKill == Init /\ [][NextKill]_vars

\* a process that is not restarted, with fetches of distinct games and
\* fixes in every order
NextOrder ==
    \/ \E m \in Monitors : GamesTickOrder(m)
    \/ \E m \in Monitors : SendNew(m)
    \/ \E m \in Monitors : SendUpdate(m)
    \/ \E m \in Monitors : FixesTickOrder(m)
    \/ \E m \in Monitors : SendFix(m)
    \/ \E m \in Commanded : GameSetup(m)

SpecOrder == Init /\ [][NextOrder]_vars

\* ============================================================ properties
Persisted(f) == Range(file[f])
\* tasks.loop keeps scheduling monitor_loop and every await of a tick
\* returns: a monitor's loop is never suspended for good
MonitorStep ==
    \E m \in Monitors :
       GamesTick(m) \/ SendNew(m) \/ SendUpdate(m) \/ FixesTick(m) \/ SendFix(m)

SpecFair == Spec /\ WF_vars(MonitorStep)

FixKeys(q) == {q[k].title : k \in 1..Len(q)}
\* the titles of the notifications of one kind in a send log, in order
RECURSIVE Notified(_, _)
Notified(log, kind) ==
    IF log = <<>> THEN <<>>
    ELSE (IF Head(log)[1] = kind THEN <<Head(log)[2]>> ELSE <<>>)
           \o Notified(Tail(log), kind)
Count(q, k) == Cardinality({j \in 1..Len(q) : q[j] = k})
\* the step is a restart of the process
Restarted == mon' = <<NewMonitor(file)>> /\ file' = file

\* a classification never queues a key that its seen-set holds
QueuesUnseen(m) ==
    /\ mon[m].pc = "idle" =>
          Range(mon'[m].new_post_queue) \cap mon[m].seen_new = {}
    /\ mon[m].pc = "fixes" =>
          FixKeys(mon'[m].new_fix_list) \cap mon[m].seen_fixed = {}

\* C1 as claimed: over ticks, command callbacks and restarts, no step
\* removes a key from seen_new, seen_update or seen_fixed, and no
\* classification queues a key that is in its seen-set
C1_NeverRemoved ==
    [][\A m \in Monitors :
          /\ mon[m].seen_new \subseteq mon'[m].seen_new
          /\ mon[m].seen_update \subseteq mon'[m].seen_update
          /\ mon[m].seen_fixed \subseteq mon'[m].seen_fixed
          /\ QueuesUnseen(m)]_vars

\* C1 amended: the persisted sets never lose a key and no classification
\* queues a key of its seen-set (which holds every persisted key); in
\* memory seen_update and seen_fixed never lose a key, and seen_new loses a
\* key only when a restart interrupts the update batch of the poll that
\* added the key (line 325) before save_config (line 338) persisted it
C1_RemovedOnlyByInterruptedPoll ==
    [][/\ Persisted("seen_new") \subseteq Range(file'.seen_new)
       /\ Persisted("seen_update") \subseteq Range(file'.seen_update)
       /\ Persisted("seen_fixed") \subseteq Range(file'.seen_fixed)
       /\ \A m \in Monitors :
            /\ Persisted("seen_new") \subseteq mon[m].seen_new
            /\ Persisted("seen_fixed") \subseteq mon[m].seen_fixed
            /\ mon[m].seen_update \subseteq mon'[m].seen_update
            /\ mon[m].seen_fixed \subseteq mon'[m].seen_fixed
            /\ QueuesUnseen(m)
            /\ \A k \in mon[m].seen_new \ mon'[m].seen_new :
                  /\ Restarted
                  /\ mon[m].pc = "send_update"
                  /\ k \in Range(mon[m].new_post_queue)
                  /\ k \notin Persisted("seen_new")]_vars

\* C1 witness: a poll fetched a game that is in the persisted seen-set and
\* did not queue it, while queueing another one
C1_Witness ==
    \E m \in Monitors :
       /\ mon[m].pc = "send_new"
       /\ \E j \in 1..Len(mon[m].games) :
             /\ mon[m].games[j].title \in Persisted("seen_new")
             /\ mon[m].games[j].title \notin Range(mon[m].new_post_queue)

\* C2: while the upstream serves the same list at every fetch, a poll
\* sends neither a New nor an Updated notification for a key that an
\* earlier poll left in the persisted seen-set and in the persisted cache
C2_IdenticalFetchSilent ==
    \A m \in Monitors : \A k \in Persisted("seen_new") \cap DOMAIN file.game_cache :
       /\ mon[m].pc = "send_new" => k \notin Range(mon[m].new_post_queue)
       /\ mon[m].pc = "send_update" => k \notin Range(mon[m].update_post_queue)

\* the records of key k in the fetch of monitor m all carry the cached
\* app identifier and an image other than the cached one
ImageAloneChanged(m, k) ==
    /\ k \in DOMAIN mon[m].config.game_cache
    /\ k \in mon[m].seen_new /\ k \notin Range(mon[m].new_post_queue)
    /\ \E j \in 1..Len(mon[m].games) : mon[m].games[j].title = k
    /\ \A j \in 1..Len(mon[m].games) :
          mon[m].games[j].title = k =>
             /\ mon[m].games[j].appid = mon[m].config.game_cache[k].appid
             /\ mon[m].games[j].img # mon[m].config.game_cache[k].image

\* C3: when the update batch of a poll ends, a seen key whose fetched
\* payload differed from the cached one in the image alone has had exactly
\* one Updated and no New notification, the cache holds its new payload
\* and the key is still in seen_new
C3_ImageChangeOneUpdate ==
    [][\A m \in Monitors :
          mon[m].pc = "send_update" /\ m \in 1..Len(mon') /\ mon'[m].pc = "fixes" =>
             \A k \in Titles : ImageAloneChanged(m, k) =>
                /\ Count(Notified(mon'[m].sent, "UPDATED"), k) = 1
                /\ Count(Notified(mon'[m].sent, "NEW"), k) = 0
                /\ mon'[m].config.game_cache[k] = mon[m].current_map[k]
                /\ k \in mon'[m].seen_new]_vars

\* the step in which monitor m classifies a non-empty fetch and finds New
\* games while no new-games destination is bound
NewFoundUnbound(m) ==
    /\ mon[m].pc = "idle" /\ m \in 1..Len(mon') /\ mon'[m].pc # "idle"
    /\ mon[m].config.channel_id_new = NoChannel
    /\ mon'[m].new_post_queue # <<>>

\* the step in which monitor m receives fixes that are not in seen_fixed
\* while no fixes destination is bound (the fetch result is what the scrape
\* leaves in the fixes cache)
FixFoundUnbound(m) ==
    /\ mon[m].pc = "fixes" /\ m \in 1..Len(mon') /\ mon'[m].pc # "fixes"
    /\ mon[m].config.channel_id_fixed = NoChannel
    /\ NewFixList(fixes_cache', mon[m].seen_fixed) # <<>>

\* no delivery attempt for the new batch, no error
NoNewAttempt(m) ==
    /\ mon'[m].pc \in {"send_update", "fixes"}
    /\ Notified(mon'[m].sent, "NEW") = <<>>
    /\ ~mon'[m].raised

\* no delivery attempt for the fixes, no error: the tick is over
NoFixAttempt(m) == mon'[m].pc = "idle" /\ ~mon'[m].raised

\* C4 as claimed: New items found with no destination bound are not sent,
\* raise no error, and are added to the feature's seen-set
C4_UnboundStillSeen ==
    [][\A m \in Monitors :
          /\ NewFoundUnbound(m) =>
                /\ NoNewAttempt(m)
                /\ Range(mon'[m].new_post_queue) \subseteq mon'[m].seen_new
          /\ FixFoundUnbound(m) =>
                /\ NoFixAttempt(m)
                /\ FixKeys(NewFixList(fixes_cache', mon[m].seen_fixed))
                      \subseteq mon'[m].seen_fixed]_vars

\* C4 amended: New items found with no destination bound are not sent,
\* raise no error, and leave the feature's seen-set as it was, in memory
\* and in the file, to the end of the poll: the keys stay New
C4_UnboundStaysNew ==
    [][\A m \in Monitors :
          /\ NewFoundUnbound(m) =>
                /\ NoNewAttempt(m)
                /\ mon'[m].seen_new = mon[m].seen_new
                /\ Range(file'.seen_new) = Persisted("seen_new")
                /\ Range(mon'[m].new_post_queue) \cap mon'[m].seen_new = {}
          /\ (mon[m].pc = "send_update" /\ m \in 1..Len(mon')
                /\ mon'[m].pc \in {"send_update", "fixes"}) =>
                   /\ mon'[m].seen_new = mon[m].seen_new
                   /\ Notified(mon'[m].sent, "NEW") = Notified(mon[m].sent, "NEW")
          /\ FixFoundUnbound(m) =>
                /\ NoFixAttempt(m)
                /\ mon'[m].seen_fixed = mon[m].seen_fixed
                /\ file' = file]_vars

\* C4 witness: a games pipeline that found New games with no destination
\* bound has reached its end, while unseen fixes wait in the fixes cache
\* with no fixes destination bound
C4_Witness ==
    \E m \in Monitors :
       /\ mon[m].pc = "fixes"
       /\ mon[m].config.channel_id_new = NoChannel
       /\ mon[m].new_post_queue # <<>>
       /\ mon[m].config.channel_id_fixed = NoChannel
       /\ NewFixList(fixes_cache, mon[m].seen_fixed) # <<>>

\* monitor m resumes in this step from the await of a safe_send
Resumed(m) ==
    /\ ~Restarted /\ m \in 1..Len(mon')
    /\ mon'[m].i # mon[m].i \/ mon'[m].pc # mon[m].pc

\* the attempt for the current item of batch q is logged, delivered or not
Attempted(m, kind, key) ==
    \E ok \in BOOLEAN : mon'[m].sent = Append(mon[m].sent, <<kind, key, ok>>)

\* C5: whether a delivery succeeds or fails, the batch goes on to its next
\* item, and after the last item the whole batch is in the seen-set; when
\* the poll ends every item of a batch that was sent has had its attempt
\* and is in the persisted seen-set
C5_FailureKeepsBatch ==
    [][\A m \in Monitors :
          /\ (mon[m].pc = "send_new" /\ Resumed(m)) =>
                LET q == Sorted(mon[m].new_post_queue)
                IN /\ Attempted(m, "NEW", q[mon[m].i])
                   /\ IF mon[m].i < Len(q)
                      THEN mon'[m].pc = "send_new" /\ mon'[m].i = mon[m].i + 1
                      ELSE /\ mon'[m].pc \in {"send_update", "fixes"}
                           /\ Range(q) \subseteq mon'[m].seen_new
          /\ (mon[m].pc = "send_update" /\ Resumed(m)) =>
                LET q == Sorted(mon[m].update_post_queue)
                IN /\ Attempted(m, "UPDATED", q[mon[m].i])
                   /\ IF mon[m].i < Len(q)
                      THEN mon'[m].pc = "send_update" /\ mon'[m].i = mon[m].i + 1
                      ELSE /\ mon'[m].pc = "fixes"
                           /\ Range(q) \subseteq mon'[m].seen_update
          /\ (mon[m].pc \in {"send_new", "send_update"} /\ Resumed(m)
                /\ mon'[m].pc = "fixes") =>
                /\ Notified(mon'[m].sent, "NEW")
                      \in {<<>>, Sorted(mon[m].new_post_queue)}
                /\ Notified(mon'[m].sent, "UPDATED")
                      \in {<<>>, Sorted(mon[m].update_post_queue)}
                /\ Range(Notified(mon'[m].sent, "NEW")) \subseteq Range(file'.seen_new)
                /\ Range(Notified(mon'[m].sent, "UPDATED"))
                      \subseteq Range(file'.seen_update)
          /\ (mon[m].pc = "send_fix" /\ Resumed(m)) =>
                LET q == mon[m].new_fix_list
                IN IF mon[m].i < Len(q)
                   THEN /\ Attempted(m, "FIX", q[mon[m].i].title)
                        /\ mon'[m].pc = "send_fix" /\ mon'[m].i = mon[m].i + 1
                   ELSE /\ mon'[m].pc = "idle" /\ ~mon'[m].raised
                        /\ FixKeys(q) \subseteq mon'[m].seen_fixed
                        /\ FixKeys(q) \subseteq Range(file'.seen_fixed)]_vars

\* C5 witness: a poll has ended whose first New delivery failed and was
\* followed by the attempt for the next item, with the key of the failed
\* delivery in the persisted seen-set
C5_Witness ==
    \E m \in Monitors :
       /\ mon[m].pc = "fixes"
       /\ Len(mon[m].sent) >= 2
       /\ mon[m].sent[1][1] = "NEW" /\ mon[m].sent[1][3] = FALSE
       /\ mon[m].sent[2][1] = "NEW" /\ mon[m].sent[2][2] # mon[m].sent[1][2]
       /\ mon[m].sent[1][2] \in Persisted("seen_new")

\* the snapshot of monitor m (seen-sets, cache, bindings) and the config
\* file are the same after the step as before
SnapshotKept(m) ==
    /\ mon'[m].seen_new = mon[m].seen_new
    /\ mon'[m].seen_update = mon[m].seen_update
    /\ mon'[m].seen_fixed = mon[m].seen_fixed
    /\ mon'[m].config = mon[m].config
    /\ file' = file

\* C6: a tick whose games fetch is empty goes on to the fixes pipeline
\* with nothing sent and the snapshot and the file as they were; a fixes
\* pipeline whose fetch is empty ends the tick the same way
C6_EmptyFetchChangesNothing ==
    [][\A m \in Monitors :
          /\ (mon[m].pc = "idle" /\ m \in 1..Len(mon')
                /\ mon'[m].pc # "idle" /\ mon'[m].games = <<>>) =>
                /\ mon'[m].pc = "fixes"
                /\ mon'[m].sent = <<>>
                /\ ~mon'[m].raised
                /\ SnapshotKept(m)
          /\ (mon[m].pc = "fixes" /\ m \in 1..Len(mon')
                /\ mon'[m].pc # "fixes" /\ fixes_cache' = <<>>) =>
                /\ mon'[m].pc = "idle"
                /\ mon'[m].sent = <<>>
                /\ SnapshotKept(m)]_vars

\* C6 witness: a monitor that has seen and cached a game got an empty
\* games fetch and stands before its fixes pipeline with an empty fixes cache
C6_Witness ==
    \E m \in Monitors :
       /\ mon[m].pc = "fixes"
       /\ mon[m].games = <<>>
       /\ mon[m].seen_new # {}
       /\ DOMAIN mon[m].config.game_cache # {}
       /\ fixes_cache = <<>>

\* C7: when the games pipeline of a tick raises, the tick goes on to its
\* fixes pipeline
C7_FixesRunAfterGamesRaise ==
    [][\A m \in Monitors :
          (m \in 1..Len(mon') /\ ~mon[m].raised /\ mon'[m].raised) =>
             mon'[m].pc = "fixes"]_vars

\* monitor m is inside a games run: it has read seen_new and the cache and
\* has not yet written the config file back
InGamesRun(m) == mon[m].pc \in {"send_new", "send_update"}

\* monitor m is inside a fixes run: it has read seen_fixed and has not yet
\* written it back
InFixesRun(m) == mon[m].pc = "send_fix"

\* C8: no two monitors that on_ready constructed are inside a run of the
\* same feature at the same time
C8_RunsDoNotInterleave ==
    \A m1, m2 \in Monitors :
       m1 # m2 =>
          /\ ~(InGamesRun(m1) /\ InGamesRun(m2))
          /\ ~(InFixesRun(m1) /\ InFixesRun(m2))

\* the keys a poll of games classifies New or Updated against the config
\* file, as a monitor constructed from the file would
Reclassified(games) ==
    LET r == NewMonitor(file)
    IN Range(NewPostQueue(games, r.seen_new))
          \cup Range(UpdatePostQueue(games, r.seen_new, r.config.game_cache))

\* every delivery attempt of monitor m's batch of a kind has been made
\* when the step is over
BatchAttempted(m, kind, queue) ==
    Notified(mon'[m].sent, kind) = Sorted(queue)

\* C9: a key enters a persisted seen-set, and a payload the persisted
\* cache, only in a step that leaves every attempt of its batch made; and
\* when a restart interrupts a monitor between classification and
\* persistence, every item of its batches is New or Updated again for the
\* monitor constructed from the file (no fix of the batch is in the
\* persisted seen_fixed)
C9_AtLeastOnce ==
    [][/\ \A k \in Range(file'.seen_new) \ Persisted("seen_new") :
            \E m \in Monitors :
               /\ m \in 1..Len(mon')
               /\ k \in Range(mon'[m].new_post_queue)
               /\ BatchAttempted(m, "NEW", mon'[m].new_post_queue)
       /\ \A k \in Range(file'.seen_update) \ Persisted("seen_update") :
            \E m \in Monitors :
               /\ m \in 1..Len(mon')
               /\ k \in Range(mon'[m].update_post_queue)
               /\ BatchAttempted(m, "UPDATED", mon'[m].update_post_queue)
       /\ \A k \in Range(file'.seen_fixed) \ Persisted("seen_fixed") :
            \E m \in Monitors :
               /\ mon[m].pc = "send_fix"
               /\ k \in FixKeys(mon[m].new_fix_list)
               /\ mon[m].i = Len(mon[m].new_fix_list)
               /\ Len(Notified(mon[m].sent, "FIX")) = mon[m].i - 1
       /\ file'.game_cache # file.game_cache =>
            \E m \in Monitors :
               /\ m \in 1..Len(mon')
               /\ mon[m].pc # "fixes" /\ mon'[m].pc = "fixes"
               /\ file'.game_cache = mon'[m].current_map
               /\ \/ BatchAttempted(m, "NEW", mon'[m].new_post_queue)
                  \/ /\ Notified(mon'[m].sent, "NEW") = <<>>
                     /\ Range(mon'[m].new_post_queue) \cap mon'[m].seen_new = {}
               /\ \/ BatchAttempted(m, "UPDATED", mon'[m].update_post_queue)
                  \/ /\ Notified(mon'[m].sent, "UPDATED") = <<>>
                     /\ mon'[m].config.channel_id_update = NoChannel
       /\ Restarted =>
            \A m \in Monitors :
               /\ mon[m].pc = "send_new" =>
                     Range(mon[m].new_post_queue) \cup Range(mon[m].update_post_queue)
                        \subseteq Reclassified(mon[m].games)
               /\ mon[m].pc = "send_update" =>
                     Range(mon[m].new_post_queue) \cup Range(mon[m].update_post_queue)
                        \subseteq Reclassified(mon[m].games)
               /\ mon[m].pc = "send_fix" =>
                     FixKeys(mon[m].new_fix_list) \cap Persisted("seen_fixed") = {}]_vars

\* C9 witness: the New batch of a poll has been attempted and recorded in
\* memory, its Updated batch is being sent, and the file does not yet hold
\* the New keys: a restart now finds them unseen
C9_Witness ==
    \E m \in Monitors :
       /\ mon[m].pc = "send_update"
       /\ Notified(mon[m].sent, "NEW") # <<>>
       /\ Range(mon[m].new_post_queue) \cap Persisted("seen_new") = {}

\* C10: a step in which an on-demand query handler answers leaves the
\* seen-sets, the cache and the bindings of every monitor, and the config
\* file, as they were, at whatever point of a poll it runs
C10_QueriesReadOnly ==
    [][answered' # answered =>
          /\ Len(mon') = Len(mon)
          /\ file' = file
          /\ \A m \in Monitors :
                /\ mon'[m].seen_new = mon[m].seen_new
                /\ mon'[m].seen_update = mon[m].seen_update
                /\ mon'[m].seen_fixed = mon[m].seen_fixed
                /\ mon'[m].config = mon[m].config
                /\ mon'[m].pc = mon[m].pc]_vars

\* C10 witness: a query has been answered and a poll is suspended inside
\* its New batch, one attempt made and the batch not yet recorded
C10_Witness ==
    /\ answered > 0
    /\ \E m \in Monitors :
          /\ mon[m].pc = "send_new"
          /\ mon[m].sent # <<>>
          /\ Range(mon[m].new_post_queue) \cap Persisted("seen_new") = {}

\* the single game of the scenario and its cache entry
GameA == [title |-> "A", appid |-> "1", img |-> "x", isdict |-> TRUE]
CacheA == [t \in {"A"} |-> [appid |-> "1", image |-> "x"]]

\* monitor m has an empty seen-set and an empty cache
SnapshotEmpty(m) ==
    mon[m].seen_new = {} /\ DOMAIN mon[m].config.game_cache = {}

\* C11: from an empty seen-set and cache with the new-games destination
\* bound, a poll that fetches the single game A (appid 1, image x) queues
\* A as New, makes exactly one New attempt for it, and ends with
\* seen_new = {A} and game_cache = {A: (1, x)} in memory and in the file
C11_FirstGameIsNew ==
    [][\A m \in Monitors :
          /\ (mon[m].pc = "idle" /\ m \in 1..Len(mon') /\ SnapshotEmpty(m)
                /\ mon[m].config.channel_id_new # NoChannel
                /\ mon'[m].games = <<GameA>>) =>
                /\ mon'[m].pc = "send_new"
                /\ mon'[m].new_post_queue = <<"A">>
                /\ mon'[m].update_post_queue = <<>>
                /\ mon'[m].sent = <<>>
          /\ (mon[m].pc = "send_new" /\ Resumed(m) /\ SnapshotEmpty(m)
                /\ mon[m].games = <<GameA>>) =>
                /\ mon'[m].pc = "fixes"
                /\ \E ok \in BOOLEAN : mon'[m].sent = <<<<"NEW", "A", ok>>>>
                /\ mon'[m].seen_new = {"A"}
                /\ mon'[m].config.game_cache = CacheA
                /\ file'.seen_new = <<"A">>
                /\ file'.game_cache = CacheA]_vars

\* C11 witness: such a poll has ended: one New attempt for A, nothing
\* else sent, A seen and cached in memory and in the file
C11_Witness ==
    \E m \in Monitors :
       /\ mon[m].pc = "fixes"
       /\ mon[m].games = <<GameA>>
       /\ Len(mon[m].sent) = 1 /\ mon[m].sent[1][1] = "NEW"
       /\ mon[m].seen_new = {"A"} /\ mon[m].seen_update = {}
       /\ file.seen_new = <<"A">> /\ file.game_cache = CacheA

\* a sequence of titles is in lexicographic order
Ascending(q) == \A a, b \in 1..Len(q) : a < b => TitleRank[q[a]] <= TitleRank[q[b]]

\* the place of a title in a fetched list that holds it once
Place(list, title) == CHOOSE k \in 1..Len(list) : list[k].title = title

\* C12: in the send log of a poll the New titles are in lexicographic
\* order, the Updated titles are in lexicographic order and no New
\* attempt follows an Updated one, whatever the order of the fetched list;
\* the fixes being sent are the unseen fixes of the fetch in the order
\* of the fetch, attempted one after the other
C12_NotificationOrder ==
    \A m \in Monitors :
       /\ Ascending(Notified(mon[m].sent, "NEW"))
       /\ Ascending(Notified(mon[m].sent, "UPDATED"))
       /\ \A a, b \in 1..Len(mon[m].sent) :
             (a < b /\ mon[m].sent[a][1] = "UPDATED") => mon[m].sent[b][1] # "NEW"
       /\ mon[m].pc = "fixes" =>
             /\ Range(Notified(mon[m].sent, "NEW")) \in {{}, Range(mon[m].new_post_queue)}
             /\ Range(Notified(mon[m].sent, "UPDATED"))
                   \in {{}, Range(mon[m].update_post_queue)}
       /\ mon[m].pc = "send_fix" =>
             LET q == mon[m].new_fix_list
             IN /\ Notified(mon[m].sent, "FIX") = [k \in 1..(mon[m].i - 1) |-> q[k].title]
                /\ \A k \in 1..Len(q) :
                      \E j \in 1..Len(fixes_cache) : fixes_cache[j] = q[k]
                /\ \A a, b \in 1..Len(q) :
                      a < b => Place(fixes_cache, q[a].title) < Place(fixes_cache, q[b].title)

\* C12 witness: an earlier tick scraped fix G before fix F and sent both,
\* and a poll that fetched game B before game A and queued them in that
\* order has attempted A first
C12_Witness ==
    \E m \in Monitors :
       /\ mon[m].pc = "send_new"
       /\ mon[m].new_post_queue = <<"B", "A">>
       /\ Notified(mon[m].sent, "NEW") = <<"A">>
       /\ Len(fixes_cache) = 2 /\ fixes_cache[1].title = "G"
       /\ Persisted("seen_fixed") = {"F", "G"}

\* the monitor constructed from file f has the snapshot of state s
SameSnapshot(f, s) ==
    LET r == NewMonitor(f)
    IN /\ r.seen_new = s.seen_new
       /\ r.seen_update = s.seen_update
       /\ r.seen_fixed = s.seen_fixed
       /\ r.config = s.config

\* C13: for every state a monitor is in, each file save_config can write
\* for it, whatever the order of the lists, gives back the same seen-sets,
\* cache and bindings when a monitor is constructed from it
C13_RoundTrip ==
    \A m \in Monitors : \A f \in save_config(mon[m]) : SameSnapshot(f, mon[m])

\* C13 witness: the file was saved from a monitor that holds two seen
\* games (two list orders to write), a cache and a binding
C13_Witness ==
    \E m \in Monitors :
       /\ file \in save_config(mon[m])
       /\ Cardinality(save_config(mon[m])) >= 2
       /\ DOMAIN mon[m].config.game_cache # {}
       /\ mon[m].config.channel_id_new # NoChannel

\* the entries of a fix list that seen does not hold, in the list's order
Unseen(list, seen) ==
    LET keep == {k \in 1..Len(list) : list[k].title \notin seen}
        nth(n) == CHOOSE k \in keep : Cardinality({j \in keep : j < k}) = n - 1
    IN [n \in 1..Cardinality(keep) |-> list[nth(n)]]

\* C14: a failed scrape returns what the fixes cache holds (nothing when
\* there is none) and leaves the cache as it is, a scrape that succeeded
\* with a list leaves that list in the cache and returns it; the fixes
\* pipeline that follows sends, for a failed scrape, the cached entries
\* that seen_fixed does not hold, as it does for scraped ones, and ends
\* the tick when there is none or no destination is bound
C14_FallbackChain ==
    [][/\ \A scraped \in FixOrders :
            /\ scrape_fixes_with_playwright(fixes_cache, FALSE, scraped)
                  = [fixes |-> fixes_cache, cache |-> fixes_cache]
            /\ scrape_fixes_with_playwright(fixes_cache, TRUE, scraped)
                  = [fixes |-> scraped, cache |-> scraped]
       /\ \A m \in Monitors :
            (mon[m].pc = "fixes" /\ mon'[m].pc # "fixes") =>
               /\ fixes_cache' # fixes_cache => fixes_cache' \in FixOrders
               /\ mon'[m].pc = "send_fix" =>
                     /\ mon'[m].scrape_failed => fixes_cache' = fixes_cache
                     /\ mon'[m].new_fix_list = Unseen(fixes_cache', mon[m].seen_fixed)
                     /\ mon'[m].new_fix_list # <<>>
                     /\ mon'[m].i = 1 /\ mon'[m].sent = <<>>
                     /\ mon[m].config.channel_id_fixed # NoChannel
               /\ mon'[m].pc # "send_fix" =>
                     /\ mon'[m].pc = "idle"
                     /\ \/ Unseen(fixes_cache', mon[m].seen_fixed) = <<>>
                        \/ mon[m].config.channel_id_fixed = NoChannel
               /\ mon'[m].seen_fixed = mon[m].seen_fixed /\ file' = file]_vars

\* C14 witness: the scrape failed with fixes G and F in the cache, left
\* there by a scrape that succeeded while no destination was bound, and
\* the pipeline is sending the cached entries
C14_Witness ==
    \E m \in Monitors :
       /\ mon[m].pc = "send_fix"
       /\ mon[m].scrape_failed
       /\ Len(fixes_cache) = 2 /\ fixes_cache[1].title = "G"
       /\ mon[m].new_fix_list = fixes_cache
       /\ mon[m].seen_fixed = {}

\* C15: whenever a monitor is between pipeline runs (its tick is over, or
\* its games pipeline has ended and its fixes pipeline has yet to get its
\* scrape), the config file holds the monitor's seen-sets, cache and
\* bindings: what a run or a setup callback changed in memory it has saved
C15_FileEqualsMemory ==
    \A m \in Monitors :
       mon[m].pc \in {"idle", "fixes"} => SameSnapshot(file, mon[m])

\* C15 witness: a tick is over with games in seen_new and seen_update, a
\* fix in seen_fixed, a cache and all three destinations bound
C15_Witness ==
    \E m \in Monitors :
       /\ mon[m].pc = "idle"
       /\ mon[m].seen_new # {} /\ mon[m].seen_update # {} /\ mon[m].seen_fixed # {}
       /\ DOMAIN mon[m].config.game_cache # {}
       /\ mon[m].config.channel_id_new # NoChannel
       /\ mon[m].config.channel_id_update # NoChannel
       /\ mon[m].config.channel_id_fixed # NoChannel

\* C16: the config file is never left empty or truncated
C16_NoPartialWrite == file.complete

\* what the poll's detector makes of a fetch, for the monitor's snapshot
DetectorNew(s, games) == Range(NewPostQueue(games, s.seen_new))
DetectorUpdated(s, games) ==
    Range(UpdatePostQueue(games, s.seen_new, s.config.game_cache))
Answerable(games) ==
    games # <<>> /\ \A k \in 1..Len(games) : games[k].isdict

\* C17: newgame reports the games the detector classifies as New, and
\* updategame the games the detector classifies as Updated
C17_HandlersMatchDetector ==
    \A m \in Commanded :
       Answerable(upstream) =>
          /\ Range(new_keys(mon[m], upstream)) = DetectorNew(mon[m], upstream)
          /\ {g.title : g \in Range(results(mon[m], upstream))}
                = DetectorUpdated(mon[m], upstream)

Items(msgs) == SelectSeq(msgs, LAMBDA x : x.kind = "item")
Counts(msgs) == {x.n : x \in {y \in Range(msgs) : y.kind = "count"}}

\* C18: newgame and updategame each send at most ShowCap item messages,
\* and report the total when more games than that qualify
C18_AtMostTenShown ==
    \A m \in Commanded :
       /\ Len(Items(newgame_sends(mon[m], upstream))) <= ShowCap
       /\ Len(new_keys(mon[m], upstream)) > ShowCap =>
             Counts(newgame_sends(mon[m], upstream))
                = {Len(new_keys(mon[m], upstream))}
       /\ Len(Items(updategame_sends(mon[m], upstream))) <= ShowCap
       /\ Len(results(mon[m], upstream)) > ShowCap =>
             Counts(updategame_sends(mon[m], upstream))
                = {Len(results(mon[m], upstream))}

\* the response is a 200 whose body is a JSON list
ServesList(r) == ~r.fails /\ r.status = 200 /\ r.body.json = "list"

\* C19: fetch_games never raises; it returns the list of a 200 response
\* whose body is a JSON list, unchanged, and the empty list for a failed
\* request, another status, a body that is not JSON or not a list
C19_FetchGamesTotal ==
    /\ fetch_games(upstream)
          = Returns(IF ServesList(upstream) THEN upstream.body.data ELSE <<>>)
    /\ \A m \in Monitors :
          /\ mon[m].raised =>
                /\ ServesList(upstream)
                /\ \E k \in 1..Len(upstream.body.data) : ~upstream.body.data[k].isdict
          /\ mon[m].pc \in {"send_new", "send_update"} =>
                /\ ServesList(upstream)
                /\ mon[m].games = upstream.body.data

\* a tick has fetched a 200 response whose body is not JSON and has gone on
\* to the fixes pipeline
C19_Witness ==
    /\ ~upstream.fails /\ upstream.status = 200
    /\ upstream.body.json = "malformed"
    /\ \E m \in Monitors : mon[m].pc = "fixes" /\ ~mon[m].raised

\* C20: a tick that fails stops neither loop: the status loop is still
\* running, and a monitor whose tick ended in a raise is back at idle, where
\* its next tick starts
C20_PollingNeverStops ==
    /\ status_loop.running
    /\ \A m \in Monitors : mon[m].raised => mon[m].pc = "idle"

\* the last tick of the status loop got as far as fetch_status
Fetched == status_loop.outcome \notin {"none", "no_channel", "no_gif"}

\* the mark the keywords of a lower-cased text call for, "ok" before
\* "maintenance" before "down"
MarkOf(low) ==
    CASE Contains(low, KwOk) -> "operational"
      [] ~Contains(low, KwOk) /\ Contains(low, KwMaintenance) -> "degraded"
      [] ~Contains(low, KwOk) /\ ~Contains(low, KwMaintenance)
            /\ Contains(low, KwDown) -> "outage"
      [] OTHER -> "unknown"

\* C21: one line per status block, in document order and numbered from 1,
\* marked by the first of the keywords ok, maintenance, down that the
\* lower-cased text contains, unknown when it contains none
C21_StatusLines ==
    (Fetched /\ ~status_page.fails /\ status_page.blocks # <<>>) =>
       /\ Len(status_loop.description) = Len(status_page.blocks)
       /\ \A k \in 1..Len(status_page.blocks) :
             LET line == status_loop.description[k]
             IN /\ line.idx = k
                /\ line.text = Strip(status_page.blocks[k])
                /\ line.mark = MarkOf(Lower(line.text))

\* a tick has fetched a page whose first block names down and ok and whose
\* second names down and maintenance
C21_Witness ==
    /\ Fetched
    /\ ~status_page.fails
    /\ status_page.blocks
          = << <<"D", "o", "w", "n", ",", "o", "k">>,
               <<"d", "o", "w", "n", " ", "M", "a", "i", "n", "t", "e", "n", "a", "n", "c", "e">> >>
    /\ status_loop.description[1].mark = "operational"
    /\ status_loop.description[2].mark = "degraded"

\* the lines of the answer under way
ReplyLines == IF reply.pages = <<>> THEN 0
              ELSE (Len(reply.pages) - 1) * chunk_size(reply.cmd)
                      + Len(reply.pages[Len(reply.pages)])

Ceil(n, d) == (n + d - 1) \div d

PayloadsOf(games, t) ==
    {Payload(games[k]) : k \in {j \in 1..Len(games) :
                                   games[j].isdict /\ games[j].title = t}}
FetchedTitles(games) ==
    {games[k].title : k \in {j \in 1..Len(games) : games[j].isdict}}

\* C23: once the games pipeline of a poll with a non-empty fetch is over, by
\* reaching its end or by a raise, game_cache holds every fetched title
\* with a payload it had in that fetch
C23_CacheHoldsFetch ==
    \A m \in Monitors :
       (upstream # <<>> /\ (mon[m].pc = "fixes" \/ mon[m].raised)) =>
          \A t \in FetchedTitles(upstream) :
             /\ t \in DOMAIN mon[m].config.game_cache
             /\ mon[m].config.game_cache[t] \in PayloadsOf(upstream, t)

\* the positions a monitor's tick can go to from a position
TickOrder ==
    [idle |-> {"idle", "send_new", "send_update", "fixes"},
     send_new |-> {"send_new", "send_update", "fixes"},
     send_update |-> {"send_update", "fixes"},
     fixes |-> {"fixes", "send_fix", "idle"},
     send_fix |-> {"send_fix", "idle"}]

\* the step leaves monitor m in place (the process is not restarted)
SameLoop(m) == m \in 1..Len(mon') /\ ~Restarted

\* C24: a monitor, and so a tick, exists only once the bot is ready; a tick
\* starts only when the loop's last tick is over; and within a tick the
\* games pipeline has made its last attempt before the fixes pipeline starts
C24_SchedulingOrder ==
    [][/\ Len(mon') > 0 => ready'
       /\ \A m \in Monitors :
             SameLoop(m) =>
                /\ mon'[m] # mon[m] => ready
                /\ mon'[m].pc \in TickOrder[mon[m].pc]
                /\ (mon[m].pc \in {"send_new", "send_update"}) =>
                      mon'[m].games = mon[m].games
                /\ (mon[m].pc = mon'[m].pc) =>
                      mon'[m].i \in {mon[m].i, mon[m].i + 1}
                /\ (mon[m].pc = "send_new" /\ mon'[m].pc # "send_new") =>
                      mon[m].i = Len(mon[m].new_post_queue)
                /\ (mon[m].pc = "send_update" /\ mon'[m].pc # "send_update") =>
                      mon[m].i = Len(mon[m].update_post_queue)
                /\ (mon[m].pc \in {"send_new", "send_update"}
                      /\ mon'[m].pc = "fixes") =>
                      Len(mon'[m].sent) = Len(mon[m].sent) + 1]_vars

\* a tick that sent a new game and an update is at the start of its fixes
\* pipeline
C24_Witness ==
    /\ ready
    /\ \E m \in Monitors :
          /\ mon[m].pc = "fixes"
          /\ Notified(mon[m].sent, "NEW") # <<>>
          /\ Notified(mon[m].sent, "UPDATED") # <<>>

\* where a title stands first in a list of entries
FirstAt(entries, t) ==
    CHOOSE k \in 1..Len(entries) :
       /\ entries[k].title = t
       /\ \A j \in 1..(k - 1) : entries[j].title # t

\* the fixes a fixegame answer shows, when it got as far as its first page
Shown == IF reply.pages = <<>> THEN <<>> ELSE reply.pages[1]

\* C25: the list fetch_fixes returns has no title twice, holds for every
\* extracted title its first entry, and keeps those entries in the order in
\* which they stand in the markup
C25_FirstOfEachTitle ==
    (reply.cmd = "fixegame" /\ upstream.ok) =>
       /\ NoTitleTwice(Shown)
       /\ {Shown[k].title : k \in 1..Len(Shown)}
             = {upstream.entries[k].title : k \in 1..Len(upstream.entries)}
       /\ \A k \in 1..Len(Shown) :
             Shown[k] = upstream.entries[FirstAt(upstream.entries, Shown[k].title)]
       /\ \A j, k \in 1..Len(Shown) :
             j < k => FirstAt(upstream.entries, Shown[j].title)
                         < FirstAt(upstream.entries, Shown[k].title)

\* the markup lists G, F and G again with another link, and the answer
\* shows G with its first link and then F
C25_Witness ==
    /\ reply.cmd = "fixegame"
    /\ upstream.ok
    /\ Len(upstream.entries) = 3
    /\ upstream.entries[1].title = "G" /\ upstream.entries[2].title = "F"
    /\ upstream.entries[3].title = "G"
    /\ upstream.entries[3].download # upstream.entries[1].download
    /\ Len(reply.log) = 1
    /\ Shown = <<upstream.entries[1], upstream.entries[2]>>

\* C26: a tick of the status loop calls send_visual_status for every bound
\* guild, whatever the deliveries to the guilds before it met
C26_SiblingDeliveries ==
    status_loop.called \in {0, MaxGuilds}

\* game B, which the upstream lists with one payload only
GameB == [title |-> "B", appid |-> "1", img |-> "x", isdict |-> TRUE]

\* C27: a seen game that the last non-empty fetch did not list (the cache,
\* which that fetch replaced, does not hold it) and that the next fetch
\* lists again with the payload it always had is classified Unchanged:
\* it is queued neither as Updated nor as New, and with the update
\* destination bound no update batch is sent
C27_ReappearsUnchanged ==
    [][\A m \in Monitors :
          (/\ mon[m].pc = "idle" /\ SameLoop(m)
           /\ "B" \in mon[m].seen_new
           /\ DOMAIN mon[m].config.game_cache = {"A"}
           /\ mon[m].config.channel_id_update # NoChannel
           /\ mon'[m].pc \in {"send_new", "send_update", "fixes"}
           /\ GameB \in Range(mon'[m].games)) =>
              /\ "B" \notin Range(mon'[m].update_post_queue)
              /\ "B" \notin Range(mon'[m].new_post_queue)
              /\ mon'[m].pc # "send_update"]_vars

\* the notifications of a kind for a key that one poll of monitor m has
\* delivered
Delivered(m, kind, key) ==
    {k \in 1..Len(mon[m].sent) : mon[m].sent[k] = <<kind, key, TRUE>>}

\* C28: within one poll no key is notified twice in a feature
C28_OncePerKey ==
    \A m \in Monitors :
       \A kind \in {"NEW", "UPDATED", "FIXED"} :
          \A key \in Titles \cup FixTitles :
             Cardinality(Delivered(m, kind, key)) <= 1

\* C29: every title recorded as Updated is recorded as New, in each
\* monitor and in the config file
C29_UpdatedWereNew ==
    /\ \A m \in Monitors : mon[m].seen_update \subseteq mon[m].seen_new
    /\ Range(file.seen_update) \subseteq Range(file.seen_new)

\* an update batch has been sent and its titles are recorded and saved
C29_Witness ==
    /\ file.seen_update # <<>>
    /\ \E m \in Monitors :
          /\ mon[m].seen_update # {}
          /\ Notified(mon[m].sent, "UPDATED") # <<>>

\* game A is listed with image y in the list monitor m has fetched, and
\* with no other image
FetchedAsY(m) ==
    /\ \E k \in 1..Len(mon[m].games) : mon[m].games[k].title = "A"
    /\ \A k \in 1..Len(mon[m].games) :
          mon[m].games[k].title = "A" => mon[m].games[k].img = "y"

\* a poll has just ended in which seen game A was fetched with a payload
\* other than the cached one (it was queued as Updated) while no update
\* destination was bound: nothing was sent and the cache now holds the
\* fetched payload
Swallowed ==
    \E m \in Monitors :
       /\ mon[m].pc = "fixes"
       /\ mon[m].config.channel_id_update = NoChannel
       /\ "A" \in Range(mon[m].update_post_queue)
       /\ Notified(mon[m].sent, "UPDATED") = <<>>
       /\ FetchedAsY(m)

\* no poll is fetching A with a payload other than y
PayloadStays ==
    \A m \in Monitors :
       \A k \in 1..Len(mon[m].games) :
          mon[m].games[k].title = "A" => mon[m].games[k].img = "y"

\* no Updated notification for A has been attempted in a poll under way
NoUpdatedA ==
    \A m \in Monitors : "A" \notin Range(Notified(mon[m].sent, "UPDATED"))

\* C30: once a payload change of seen game A has been fetched with no
\* update destination bound, no poll from then on notifies A as Updated,
\* whatever is bound later, as long as A's payload does not change again
C30_SwallowedForGood ==
    [](Swallowed => ([]PayloadStays => []NoUpdatedA))

\* every list a poll classifies lists A
StaysListed ==
    \A m \in Monitors :
       mon[m].games # <<>> =>
          \E k \in 1..Len(mon[m].games) : mon[m].games[k].title = "A"

\* the same, for the behaviours in which no fetch after the change omits A
SwallowedWhileListed ==
    [](Swallowed => ([](PayloadStays /\ StaysListed) => []NoUpdatedA))

\* the channel bound to a feature in a config (a monitor's or the file's)
Binding(cfg, feature) ==
    CASE feature = "new" -> cfg.channel_id_new
      [] feature = "update" -> cfg.channel_id_update
      [] feature = "fixed" -> cfg.channel_id_fixed

\* the step is the channel selection of gamesetup for this feature and
\* channel, run on monitor m
SetupStep(m, feature, ch) ==
    /\ Put(m, ChannelSelect(mon[m], feature, ch))
    /\ file' \in save_config(ChannelSelect(mon[m], feature, ch))

\* the step is some channel selection of gamesetup
AnySetupStep ==
    \E m \in Commanded, feature \in Features, ch \in Channels :
       SetupStep(m, feature, ch)

\* what the selection does in memory: the feature is bound to the channel,
\* the other two bindings, the seen-sets, the cache and the position of a
\* suspended poll stay as they were
SetupInMemory(m, feature, ch) ==
    /\ Binding(mon'[m].config, feature) = ch
    /\ \A f \in Features \ {feature} :
          Binding(mon'[m].config, f) = Binding(mon[m].config, f)
    /\ mon'[m].seen_new = mon[m].seen_new
    /\ mon'[m].seen_update = mon[m].seen_update
    /\ mon'[m].seen_fixed = mon[m].seen_fixed
    /\ mon'[m].config.game_cache = mon[m].config.game_cache
    /\ mon'[m].pc = mon[m].pc /\ mon'[m].i = mon[m].i
    /\ mon'[m].new_post_queue = mon[m].new_post_queue
    /\ mon'[m].update_post_queue = mon[m].update_post_queue

\* the bindings and the cache of the file after the selection
SetupBindingsInFile(feature, ch) ==
    /\ file'.complete
    /\ Binding(file', feature) = ch
    /\ \A f \in Features \ {feature} : Binding(file', f) = Binding(file, f)
    /\ file'.game_cache = file.game_cache

\* only a channel selection changes a binding of the file: every other
\* write, a poll's included, writes the bindings the file has
WriteBackKeepsBindings ==
    (\E f \in Features : Binding(file', f) # Binding(file, f)) => AnySetupStep

\* C31 as claimed: the selection binds the selected feature in memory and
\* in the file and leaves the other bindings, the three seen-sets and the
\* cache as they were, in memory and in the file, also while a poll is
\* suspended; the poll's later write keeps the binding
C31_SetupFrame ==
    [][/\ \A m \in Commanded, feature \in Features, ch \in Channels :
             SetupStep(m, feature, ch) =>
                /\ SetupInMemory(m, feature, ch)
                /\ SetupBindingsInFile(feature, ch)
                /\ Range(file'.seen_new) = Range(file.seen_new)
                /\ Range(file'.seen_update) = Range(file.seen_update)
                /\ Range(file'.seen_fixed) = Range(file.seen_fixed)
       /\ WriteBackKeepsBindings]_vars

\* C31 amended: as claimed, except that the file's seen-sets after the
\* selection are the monitor's in-memory seen-sets, which hold what the
\* file held and, for seen_new, the batch a suspended poll has recorded
\* and not yet saved
C31_SetupWritesMemory ==
    [][/\ \A m \in Commanded, feature \in Features, ch \in Channels :
             SetupStep(m, feature, ch) =>
                /\ SetupInMemory(m, feature, ch)
                /\ SetupBindingsInFile(feature, ch)
                /\ Range(file'.seen_new) = mon[m].seen_new
                /\ Range(file.seen_new) \subseteq Range(file'.seen_new)
                /\ Range(file'.seen_new) \ Range(file.seen_new)
                      \subseteq Range(mon[m].new_post_queue)
                /\ Range(file'.seen_update) = Range(file.seen_update)
                /\ Range(file'.seen_update) = mon[m].seen_update
                /\ Range(file'.seen_fixed) = Range(file.seen_fixed)
                /\ Range(file'.seen_fixed) = mon[m].seen_fixed
       /\ WriteBackKeepsBindings]_vars

\* C31 witness: the selection has run while a poll was suspended in its
\* update batch: the file already lists the New batch of the poll that is
\* still under way, which only the selection's save can have written
C31_Witness ==
    \E m \in Commanded :
       /\ mon[m].pc = "send_update"
       /\ mon[m].new_post_queue # <<>>
       /\ Notified(mon[m].sent, "NEW") # <<>>
       /\ Range(mon[m].new_post_queue) \subseteq Range(file.seen_new)
       /\ \A f \in Features : Binding(file, f) = Binding(mon[m].config, f)

====
